---- MODULE Spec2Model ----
(***************************************************************************)
(* Model of etl::dyn_matrix_view (include/etl/op/dyn_matrix_view.hpp), the *)
(* direct-memory specialisation, over a referent `sub` that carries the    *)
(* CPU/GPU coherency state machine of section 4.1 of the specification.    *)
(*                                                                         *)
(* The referent's own coherency operations (sub.invalidate_cpu(), ...) are *)
(* not part of the sources at hand; the operators prefixed sub_ model them *)
(* from the specification.  Every operator without that prefix models a    *)
(* method of the view, line by line.                                       *)
(***************************************************************************)
EXTENDS Integers, Sequences, FiniteSets, TLC

(* ----------------------------- bounds ---------------------------------- *)
Size   == 2      \* element count of the referent (etl::size(sub))
Width  == 2      \* number of elements of one vector load/store

Index   == 0 .. (Size - 1)
\* element values: the view and the coherency operations only move values
\* between buffers and never compute on them, so two values tell every
\* copy from every stale buffer
Val     == {0, 1}
Buffer  == [1 .. Size -> Val]
Vec     == [1 .. Width -> Val]
VecPos  == {x \in Index : x + Width <= Size}
NullPtr == "nullptr"
NoMem   == << >>                 \* storage that has not been allocated

RECURSIVE Product(_)
Product(d) == IF d = << >> THEN 1 ELSE Head(d) * Product(Tail(d))

\* the numbers of dimensions D the view template is instantiated with
Ds == {1, 2}

\* the dimension vectors a view is constructed with (shape-preserving)
DimChoices ==
    UNION {{d \in [1 .. n -> 1 .. Size] : Product(d) = Size} : n \in Ds}

VARIABLES
    sub,                      \* the referent: coherency flags, host and device buffers,
                              \* and what the last operation did to it (copied: a
                              \* copy between the buffers; ensured, invalidated:
                              \* ensure-host-current, invalidate-device were called;
                              \* ret: the values read; error: the error state)
    memory,                   \* dyn_matrix_view::memory, the cached pointer
    dimensions,               \* dyn_matrix_view::dimensions
    needs_evaluator_visitor,  \* decay_traits<sub_type>::needs_evaluator_visitor
    op,                       \* name of the last operation performed
    repeated,                 \* the last operation is the same as the one before it
    run,                      \* the current run of one-sided writes: its side, the
                              \* first index it wrote and the latest value written there
    _size,                    \* dyn_matrix_view::_size
    lhs,                      \* the destination of the last assignment, while no other
                              \* operation has followed it
    pool,                     \* a pooling statement: its input, its parameters and
                              \* its output
    egblas,                   \* a call of an egblas wrapper: the build, the
                              \* buffers passed and how the call has ended
    cplx                      \* a statement on etl::complex values: its operands
                              \* and its result

vars == <<sub, memory, dimensions, needs_evaluator_visitor, op, repeated, run,
          _size, lhs, pool, egblas, cplx>>

(* --------------------- coherency states (spec 4.1) --------------------- *)
HostValid(s)     == s.cpu_up_to_date /\ ~s.gpu_up_to_date
DeviceValid(s)   == ~s.cpu_up_to_date /\ s.gpu_up_to_date
BothValid(s)     == s.cpu_up_to_date /\ s.gpu_up_to_date
Uninitialized(s) == ~s.cpu_up_to_date /\ ~s.gpu_up_to_date

gpu_allocated(s) == s.gpu_mem # NoMem
Failed(s)        == s.error # "none"
Fail(s, e)       == [s EXCEPT !.error = e]

(* ------------- the referent's operations, from the spec ---------------- *)
\* etl::size(sub)
sub_size(s) == s.size

\* sub.memory_start(): null until the referent has storage
sub_memory_start(s) == IF s.cpu_mem = NoMem THEN NullPtr ELSE "sub"

\* ensure-host-current: DeviceValid only -> copy device to host, BothValid
sub_ensure_cpu_up_to_date(s) ==
    IF Failed(s) THEN s
    ELSE IF DeviceValid(s)
         THEN IF s.gpu_mem = NoMem \/ s.cpu_mem = NoMem
              THEN Fail(s, "copy_without_buffer")
              ELSE [s EXCEPT !.cpu_mem = s.gpu_mem, !.cpu_up_to_date = TRUE,
                             !.copied = TRUE, !.ensured = TRUE]
         ELSE [s EXCEPT !.ensured = TRUE]

\* ensure-device-current: HostValid only -> allocate if absent, copy, BothValid
sub_ensure_gpu_up_to_date(s) ==
    IF Failed(s) THEN s
    ELSE IF HostValid(s)
         THEN IF s.cpu_mem = NoMem
              THEN Fail(s, "copy_without_buffer")
              ELSE [s EXCEPT !.gpu_mem = s.cpu_mem, !.gpu_up_to_date = TRUE,
                             !.copied = TRUE]
         ELSE s

\* allocation of the device buffer on first use; its content is undefined
sub_ensure_gpu_allocated(s, fresh) ==
    IF Failed(s) THEN s
    ELSE IF s.gpu_mem = NoMem THEN [s EXCEPT !.gpu_mem = fresh] ELSE s

\* invalidate-host: from any state -> DeviceValid; an error state when the
\* device buffer is absent
sub_invalidate_cpu(s) ==
    IF Failed(s) THEN s
    ELSE [s EXCEPT !.cpu_up_to_date = FALSE, !.gpu_up_to_date = TRUE,
                   !.error = IF s.gpu_mem = NoMem THEN "invalidate_cpu_without_gpu"
                                                  ELSE "none"]

\* invalidate-device: from any state -> HostValid
sub_invalidate_gpu(s) ==
    IF Failed(s) THEN s
    ELSE [s EXCEPT !.cpu_up_to_date = TRUE, !.gpu_up_to_date = FALSE,
                   !.invalidated = TRUE]

\* validate-host / validate-device: force-set one flag, no copy
sub_validate_cpu(s) == IF Failed(s) THEN s ELSE [s EXCEPT !.cpu_up_to_date = TRUE]
sub_validate_gpu(s) == IF Failed(s) THEN s ELSE [s EXCEPT !.gpu_up_to_date = TRUE]

\* gpu_evict: the device buffer is released and the device side invalidated
sub_gpu_evict(s) ==
    IF Failed(s) THEN s ELSE sub_invalidate_gpu([s EXCEPT !.gpu_mem = NoMem])

\* gpu_copy_from(gpu_memory): the device buffer, allocated if absent, takes
\* the contents of gpu_memory and becomes the only valid side
sub_gpu_copy_from(s, gpu_memory) ==
    IF Failed(s) THEN s
    ELSE [s EXCEPT !.gpu_mem = gpu_memory, !.gpu_up_to_date = TRUE,
                   !.cpu_up_to_date = FALSE]

sub_is_cpu_up_to_date(s) == s.cpu_up_to_date
sub_is_gpu_up_to_date(s) == s.gpu_up_to_date

(* ------------------ the view's coherency forwarding -------------------- *)
\* variants with a forwarding slip, used to test the properties below
invalidate_cpu_swapped(s)               == sub_invalidate_gpu(s)
invalidate_gpu_swapped(s)               == sub_invalidate_cpu(s)
invalidate_gpu_validates(s)             == sub_validate_gpu(s)
validate_gpu_swapped(s)                 == sub_validate_cpu(s)
ensure_gpu_up_to_date_flag_only(s)      == sub_validate_gpu(s)
ensure_cpu_up_to_date_device_side(s)    == sub_ensure_gpu_up_to_date(s)
ensure_cpu_up_to_date_always_copies(s)  ==
    sub_ensure_cpu_up_to_date(sub_invalidate_cpu(s))
ensure_cpu_up_to_date_skipped(s)        == s
validate_cpu_swapped(s)                 == sub_validate_gpu(s)

invalidate_cpu(s)              == sub_invalidate_cpu(s)
invalidate_gpu(s)              == sub_invalidate_gpu(s)
validate_cpu(s)                == sub_validate_cpu(s)
validate_gpu(s)                == sub_validate_gpu(s)
ensure_gpu_allocated(s, fresh) == sub_ensure_gpu_allocated(s, fresh)
ensure_gpu_up_to_date(s)       == sub_ensure_gpu_up_to_date(s)
ensure_cpu_up_to_date(s)       == sub_ensure_cpu_up_to_date(s)
gpu_evict(s)                   == sub_gpu_evict(s)
gpu_copy_from(s, gpu_memory)   == sub_gpu_copy_from(s, gpu_memory)
is_cpu_up_to_date(s)           == sub_is_cpu_up_to_date(s)
is_gpu_up_to_date(s)           == sub_is_gpu_up_to_date(s)

(* ------------------ etl::dyn_index (etl/index.hpp) ---------------------- *)
\* row-major flat index of the multi-index idx in a view of dimensions dims
RECURSIVE dyn_index_from(_, _, _, _)
dyn_index_from(dims, idx, k, acc) ==
    IF k > Len(idx) THEN acc
    ELSE dyn_index_from(dims, idx, k + 1, acc * dims[k] + idx[k])

dyn_index(dims, idx) == dyn_index_from(dims, idx, 1, 0)

\* the multi-indices (f1, f2, sizes...) that are in range for dims
MultiIndex(dims) ==
    {idx \in [1 .. Len(dims) -> Index] : \A k \in 1 .. Len(dims) : idx[k] < dims[k]}

(* ------------- dereferencing the view's cached pointer ----------------- *)
\* memory[j] .. memory[j + n - 1] read: the values are recorded in ret
read_memory(s, mem, j, n) ==
    IF Failed(s) THEN s
    ELSE IF mem = NullPtr \/ s.cpu_mem = NoMem THEN Fail(s, "null_deref")
    ELSE [s EXCEPT !.ret = [k \in j .. (j + n - 1) |-> s.cpu_mem[k + 1]]]

\* memory[j + k - 1] = in[k] for k in 1..Len(in)
write_memory(s, mem, j, in) ==
    IF Failed(s) THEN s
    ELSE IF mem = NullPtr \/ s.cpu_mem = NoMem THEN Fail(s, "null_deref")
    ELSE [s EXCEPT !.cpu_mem = [k \in DOMAIN s.cpu_mem |->
                        IF k - 1 >= j /\ k - 1 < j + Len(in) THEN in[k - j]
                                                              ELSE s.cpu_mem[k]]]

\* sub.store<V>(in, i): the referent's own store, under the discipline of
\* spec 4.1 for a mutating path (ensure-host-current, invalidate-device)
sub_store(s, in, i) ==
    write_memory(sub_invalidate_gpu(sub_ensure_cpu_up_to_date(s)),
                 sub_memory_start(s), i, in)

(* -------- the referent's element access and alias test, from the spec --- *)
\* sub[j], sub.read_flat(j): the referent's own read of its element j
sub_index_const(s, j) ==
    read_memory(sub_ensure_cpu_up_to_date(s), sub_memory_start(s), j, 1)

sub_read_flat(s, j) ==
    read_memory(sub_ensure_cpu_up_to_date(s), sub_memory_start(s), j, 1)

\* sub[j] = v
sub_index_mut(s, j, v) == sub_store(s, <<v>>, j)

\* sub.alias(rhs): rhs is the set of the storages the expression rhs uses;
\* the referent aliases it when its own storage is one of them
sub_alias(s, rhs) == "sub" \in rhs

(* --------------------------- the view ----------------------------------- *)
\* constructor: the cached pointer
dyn_matrix_view(s, nev) == IF ~nev THEN sub_memory_start(s) ELSE NullPtr

\* const operator[](j)
index_const(s, mem, j) == read_memory(ensure_cpu_up_to_date(s), mem, j, 1)

\* operator[](j) with the call of invalidate_gpu left out
index_mut_without_invalidate(s, mem, j, v) ==
    write_memory(ensure_cpu_up_to_date(s), mem, j, <<v>>)

\* operator[](j), the returned reference being assigned v
index_mut(s, mem, j, v) ==
    write_memory(invalidate_gpu(ensure_cpu_up_to_date(s)), mem, j, <<v>>)

\* const operator()(j), D == 1
call1_const(s, mem, j) == read_memory(ensure_cpu_up_to_date(s), mem, j, 1)

\* operator()(j), D == 1
call1_mut(s, mem, j, v) ==
    write_memory(invalidate_gpu(ensure_cpu_up_to_date(s)), mem, j, <<v>>)

\* read_flat(j) returning the element at the mirrored index
read_flat_mirrored(s, mem, j) ==
    read_memory(ensure_cpu_up_to_date(s), mem, sub_size(s) - 1 - j, 1)

\* read_flat(j)
read_flat(s, mem, j) == read_memory(ensure_cpu_up_to_date(s), mem, j, 1)

\* const operator()(f1, f2, sizes...)
call_const(s, mem, dims, idx) ==
    read_memory(ensure_cpu_up_to_date(s), mem, dyn_index(dims, idx), 1)

\* operator()(f1, f2, sizes...) indexing with f1 alone
call_mut_first_index(s, mem, dims, idx, v) ==
    write_memory(invalidate_gpu(ensure_cpu_up_to_date(s)), mem, idx[1], <<v>>)

\* operator()(f1, f2, sizes...), the returned reference being assigned v
call_mut(s, mem, dims, idx, v) ==
    write_memory(invalidate_gpu(ensure_cpu_up_to_date(s)), mem,
                 dyn_index(dims, idx), <<v>>)

\* load<V>(x), loadu<V>(x)
load(s, mem, x)  == read_memory(s, mem, x, Width)
loadu(s, mem, x) == read_memory(s, mem, x, Width)

\* storeu<V>(in, i) writing the first element of the vector only
storeu_one_element(s, mem, in, i) == write_memory(s, mem, i, <<in[1]>>)

\* stream<V>(in, i), store<V>(in, i), storeu<V>(in, i)
stream(s, mem, in, i) == write_memory(s, mem, i, in)
store(s, mem, in, i)  == sub_store(s, in, i)
storeu(s, mem, in, i) == write_memory(s, mem, i, in)

\* memory_start()
memory_start(mem) == mem

\* alias(rhs) answering for the cached pointer instead of the referent
alias_by_pointer(s, mem, rhs) == mem # NullPtr /\ sub_alias(s, rhs)

\* alias(rhs)
alias(s, mem, rhs) == sub_alias(s, rhs)

\* sub.visit(temporary_allocator_visitor): a referent that needs the
\* evaluator gets its temporary, of undefined content, allocated here
sub_visit_temporary_allocator(s, nev, fresh) ==
    IF Failed(s) THEN s
    ELSE IF nev /\ s.cpu_mem = NoMem THEN [s EXCEPT !.cpu_mem = fresh] ELSE s

\* visit(const temporary_allocator_visitor&)
visit_temporary_allocator(s, nev, fresh) == sub_visit_temporary_allocator(s, nev, fresh)

\* visit(const back_propagate_visitor&) that leaves the pointer of the
\* constructor in place
visit_back_propagate_no_refresh(s, mem, nev) == mem

\* visit(const back_propagate_visitor&): the new value of memory
visit_back_propagate(s, mem, nev) == IF nev THEN sub_memory_start(s) ELSE mem

\* sub.visit(evaluator_visitor&): the referent takes note of the flag it is
\* visited with and leaves the visitor as it found it
sub_visit_evaluator(s, visitor) ==
    [sub |-> s, visitor |-> visitor, seen |-> visitor.need_value]

\* visit(evaluator_visitor&) without visitor.need_value = old_need_value
visit_evaluator_no_restore(s, visitor) ==
    sub_visit_evaluator(s, [visitor EXCEPT !.need_value = TRUE])

\* visit(evaluator_visitor&) of the direct view
visit_evaluator(s, visitor) ==
    LET old_need_value == visitor.need_value
        r == sub_visit_evaluator(s, [visitor EXCEPT !.need_value = TRUE])
    IN  [r EXCEPT !.visitor.need_value = old_need_value]

\* visit(evaluator_visitor&) of the non-direct view
nd_visit_evaluator(s, visitor) ==
    LET old_need_value == visitor.need_value
        r == sub_visit_evaluator(s, [visitor EXCEPT !.need_value = TRUE])
    IN  [r EXCEPT !.visitor.need_value = old_need_value]

(* ------------------------- the state machine ---------------------------- *)
NoRun  == [side |-> "none", w |-> << >>]
NoLhs  == << >>               \* no assignment has just been made
NoPool == << >>               \* no pooling statement
NoCall == << >>               \* no call of an egblas wrapper
NoCplx == << >>               \* no statement on complex values

\* the run's record after a write of v at index j
Written(w, j, v) == IF w = << >> \/ j \in DOMAIN w THEN (j :> v) ELSE w

\* observation fields are reset at the start of every operation
Begin(s) == [s EXCEPT !.copied = FALSE, !.ret = << >>, !.ensured = FALSE,
                      !.invalidated = FALSE]

Init ==
    /\ needs_evaluator_visitor \in BOOLEAN
    /\ \E host \in Buffer :
         sub = [cpu_up_to_date |-> FALSE, gpu_up_to_date |-> FALSE,
                cpu_mem |-> IF needs_evaluator_visitor THEN NoMem ELSE host,
                gpu_mem |-> NoMem, size |-> Size, error |-> "none",
                copied |-> FALSE, ret |-> << >>, ensured |-> FALSE,
                invalidated |-> FALSE]
    /\ dimensions \in DimChoices
    /\ memory = dyn_matrix_view(sub, needs_evaluator_visitor)
    /\ _size = sub_size(sub)
    /\ op = "construct"
    /\ repeated = FALSE
    /\ run = NoRun
    /\ lhs = NoLhs
    /\ pool = NoPool
    /\ egblas = NoCall
    /\ cplx = NoCplx

\* one operation named name taking the referent to s; l is the destination
\* it has assigned, NoLhs when it is no assignment
StepAssign(name, s, l) ==
    /\ ~Failed(sub)
    /\ sub' = s
    /\ op' = name
    /\ repeated' = (op = name)
    /\ lhs' = l
    /\ UNCHANGED <<dimensions, needs_evaluator_visitor, _size, pool, egblas, cplx>>

Step(name, s) == StepAssign(name, s, NoLhs)

HostRun(s, j, v) ==
    IF Failed(s) THEN NoRun
    ELSE [side |-> "host",
          w |-> IF run.side = "host" THEN Written(run.w, j, v) ELSE (j :> v)]

DeviceRun(s, j, v) ==
    IF Failed(s) THEN NoRun
    ELSE [side |-> "device",
          w |-> IF run.side = "device" THEN Written(run.w, j, v) ELSE (j :> v)]

ReadRun == IF run.side = "device_synced" THEN run ELSE NoRun

IndexRead(j) ==
    /\ Step("index_const", index_const(Begin(sub), memory, j))
    /\ run' = ReadRun /\ UNCHANGED memory

IndexWrite(j, v) ==
    /\ Step("index_mut", index_mut(Begin(sub), memory, j, v))
    /\ run' = HostRun(sub', j, v) /\ UNCHANGED memory

Call1Read(j) ==
    /\ Len(dimensions) = 1
    /\ Step("call1_const", call1_const(Begin(sub), memory, j))
    /\ run' = ReadRun /\ UNCHANGED memory

Call1Write(j, v) ==
    /\ Len(dimensions) = 1
    /\ Step("call1_mut", call1_mut(Begin(sub), memory, j, v))
    /\ run' = HostRun(sub', j, v) /\ UNCHANGED memory

ReadFlat(j) ==
    /\ Step("read_flat", read_flat(Begin(sub), memory, j))
    /\ run' = ReadRun /\ UNCHANGED memory

CallRead(idx) ==
    /\ Len(dimensions) >= 2
    /\ Step("call_const", call_const(Begin(sub), memory, dimensions, idx))
    /\ run' = ReadRun /\ UNCHANGED memory

CallWrite(idx, v) ==
    /\ Len(dimensions) >= 2
    /\ Step("call_mut", call_mut(Begin(sub), memory, dimensions, idx, v))
    /\ run' = HostRun(sub', dyn_index(dimensions, idx), v) /\ UNCHANGED memory

Load(x) ==
    /\ Step("load", load(Begin(sub), memory, x))
    /\ run' = ReadRun /\ UNCHANGED memory

Loadu(x) ==
    /\ Step("loadu", loadu(Begin(sub), memory, x))
    /\ run' = ReadRun /\ UNCHANGED memory

Stream(in, i) ==
    /\ Step("stream", stream(Begin(sub), memory, in, i))
    /\ run' = NoRun /\ UNCHANGED memory

Store(in, i) ==
    /\ Step("store", store(Begin(sub), memory, in, i))
    /\ run' = NoRun /\ UNCHANGED memory

Storeu(in, i) ==
    /\ Step("storeu", storeu(Begin(sub), memory, in, i))
    /\ run' = NoRun /\ UNCHANGED memory

InvalidateCpu ==
    /\ Step("invalidate_cpu", invalidate_cpu(Begin(sub)))
    /\ run' = NoRun /\ UNCHANGED memory

InvalidateGpu ==
    /\ Step("invalidate_gpu", invalidate_gpu(Begin(sub)))
    /\ run' = NoRun /\ UNCHANGED memory

ValidateCpu ==
    /\ Step("validate_cpu", validate_cpu(Begin(sub)))
    /\ run' = NoRun /\ UNCHANGED memory

ValidateGpu ==
    /\ Step("validate_gpu", validate_gpu(Begin(sub)))
    /\ run' = NoRun /\ UNCHANGED memory

GpuEvict ==
    /\ Step("gpu_evict", gpu_evict(Begin(sub)))
    /\ run' = NoRun /\ UNCHANGED memory

GpuCopyFrom(gpu_memory) ==
    /\ Step("gpu_copy_from", gpu_copy_from(Begin(sub), gpu_memory))
    /\ run' = NoRun /\ UNCHANGED memory

EnsureGpuAllocated(fresh) ==
    /\ Step("ensure_gpu_allocated", ensure_gpu_allocated(Begin(sub), fresh))
    /\ run' = NoRun /\ UNCHANGED memory

EnsureGpuUpToDate ==
    /\ Step("ensure_gpu_up_to_date", ensure_gpu_up_to_date(Begin(sub)))
    /\ run' = IF run.side = "host" /\ ~Failed(sub')
              THEN [run EXCEPT !.side = "host_synced"] ELSE NoRun
    /\ UNCHANGED memory

EnsureCpuUpToDate ==
    /\ Step("ensure_cpu_up_to_date", ensure_cpu_up_to_date(Begin(sub)))
    /\ run' = IF run.side = "device" /\ ~Failed(sub')
              THEN [run EXCEPT !.side = "device_synced"] ELSE NoRun
    /\ UNCHANGED memory

\* a kernel writes element j of the device buffer, then calls invalidate_cpu
\* on the view (kernel-layer contract, spec 6)
DeviceWrite(j, v) ==
    /\ gpu_allocated(sub)
    /\ Step("device_write",
            invalidate_cpu([Begin(sub) EXCEPT !.gpu_mem[j + 1] = v]))
    /\ run' = DeviceRun(sub', j, v) /\ UNCHANGED memory

VisitTemporaryAllocator(fresh) ==
    /\ Step("visit_temporary_allocator",
            visit_temporary_allocator(Begin(sub), needs_evaluator_visitor, fresh))
    /\ run' = NoRun /\ UNCHANGED memory

VisitBackPropagate ==
    /\ Step("visit_back_propagate", Begin(sub))
    /\ memory' = visit_back_propagate(sub, memory, needs_evaluator_visitor)
    /\ run' = NoRun

\* the evaluator visitor arrives with need_value = incoming; run keeps the
\* flag it arrived with, the flag the referent was visited with and the flag
\* it left with
VisitEvaluator(name, incoming, r) ==
    /\ Step(name, r.sub)
    /\ run' = [side |-> "evaluator",
               w |-> [incoming |-> incoming, seen |-> r.seen,
                      after |-> r.visitor.need_value]]
    /\ UNCHANGED memory

(* ----------------- the assignment evaluator, from the spec -------------- *)
\* the value an element read has returned
Returned(s) == s.ret[CHOOSE k \in DOMAIN s.ret : TRUE]

\* the paths of the elementwise transfer (spec 4.4, step 5)
Paths == {"elementwise", "vectorized"}

\* the element at position j of the source as the transfer reads it through
\* the view: whole vectors by load while one fits, single elements after
source_value(s, mem, path, j) ==
    LET x == Width * (j \div Width)
    IN  IF path = "vectorized" /\ x + Width <= sub_size(s)
        THEN load(s, mem, x).ret[j]
        ELSE Returned(read_flat(s, mem, j))

\* the three visitor passes over the view, then the source made current on
\* the host: the referent and the cached pointer the transfer starts from
evaluated(s, mem, nev, fresh) ==
    LET s1 == visit_temporary_allocator(s, nev, fresh)
        m1 == visit_back_propagate(s1, mem, nev)
    IN  [sub |-> read_memory(ensure_cpu_up_to_date(s1), m1, 0, sub_size(s1)),
         memory |-> m1]

\* std_assign_evaluate(view, lhs), lhs a container of its own: the values
\* lhs holds afterwards
std_assign_evaluate(s, mem, path) ==
    [j \in 1 .. sub_size(s) |-> source_value(s, mem, path, j - 1)]

\* the transfer from position j on when lhs is the referent itself, done in
\* place from left to right
RECURSIVE transfer_in_place(_, _, _, _)
transfer_in_place(s, mem, path, j) ==
    IF Failed(s) \/ j >= sub_size(s) THEN s
    ELSE IF path = "vectorized" /\ j + Width <= sub_size(s)
         THEN transfer_in_place(
                  sub_store(s, [k \in 1 .. Width |-> load(s, mem, j).ret[j + k - 1]], j),
                  mem, path, j + Width)
         ELSE transfer_in_place(
                  sub_index_mut(s, j, Returned(read_flat(s, mem, j))),
                  mem, path, j + 1)

\* std_assign_evaluate(view, sub): the source is first made a temporary when
\* the evaluator so decides, which it may when the two alias
std_assign_evaluate_self(s, mem, path, temporary) ==
    IF temporary
    THEN sub_store(s, std_assign_evaluate(s, mem, path), 0)
    ELSE transfer_in_place(s, mem, path, 0)

(* ------------------------ the view's assign_to -------------------------- *)
\* assign_to(lhs): std_assign_evaluate(*this, lhs)
assign_to(s, mem, path)                 == std_assign_evaluate(s, mem, path)
assign_to_self(s, mem, path, temporary) ==
    std_assign_evaluate_self(s, mem, path, temporary)

\* view = rhs, elementwise: view[j] = rhs[j] for every j through the view's
\* operator[]; calls counts the writes in which ensure_cpu_up_to_date and
\* invalidate_gpu were invoked on the destination
RECURSIVE assign_from(_, _, _, _, _)
assign_from(s, mem, values, j, calls) ==
    IF j = Len(values) \/ Failed(s) THEN [sub |-> s, calls |-> calls]
    ELSE LET s1 == index_mut([s EXCEPT !.ensured = FALSE, !.invalidated = FALSE],
                             mem, j, values[j + 1])
         IN  assign_from(s1, mem, values, j + 1,
                         [ensure     |-> calls.ensure + (IF s1.ensured THEN 1 ELSE 0),
                          invalidate |-> calls.invalidate
                                            + (IF s1.invalidated THEN 1 ELSE 0)])

AssignFrom(values) ==
    LET e == assign_from(Begin(sub), memory, values, 0,
                         [ensure |-> 0, invalidate |-> 0])
    IN  /\ Step("assign_from", e.sub)
        /\ run' = [side |-> "elementwise", w |-> e.calls]
        /\ UNCHANGED memory

\* lhs = view, lhs a container of its own
AssignTo(fresh, path) ==
    LET e == evaluated(Begin(sub), memory, needs_evaluator_visitor, fresh)
    IN  /\ StepAssign("assign_to", e.sub,
                      IF Failed(e.sub) THEN NoLhs
                      ELSE assign_to(e.sub, e.memory, path))
        /\ memory' = e.memory
        /\ run' = [side |-> path, w |-> << >>]

\* sub = view: the view is assigned to its own referent, a container
AssignToSelf(path, temporary) ==
    LET e == evaluated(Begin(sub), memory, needs_evaluator_visitor, sub.cpu_mem)
    IN  /\ ~needs_evaluator_visitor
        /\ Step("assign_to_self",
                IF Failed(e.sub) THEN e.sub
                ELSE assign_to_self(e.sub, e.memory, path, temporary))
        /\ memory' = e.memory
        /\ run' = [side |-> path, w |-> << >>]

\* the contents a newly allocated buffer can have: any; one stand-in when
\* the buffer exists already and nothing is allocated
Fresh(exists) == IF exists THEN {[k \in 1 .. Size |-> 0]} ELSE Buffer

\* the buffers holding one value throughout: the sources of a whole-buffer
\* copy or assignment, of which only the destination is of interest
Uniform == {[k \in 1 .. Size |-> v] : v \in Val}

Next ==
    \/ \E j \in Index : IndexRead(j)
    \/ \E j \in Index, v \in Val : IndexWrite(j, v)
    \/ \E j \in Index : Call1Read(j)
    \/ \E j \in Index, v \in Val : Call1Write(j, v)
    \/ \E j \in Index : ReadFlat(j)
    \/ \E idx \in MultiIndex(dimensions) : CallRead(idx)
    \/ \E idx \in MultiIndex(dimensions), v \in Val : CallWrite(idx, v)
    \/ \E x \in VecPos : Load(x)
    \/ \E x \in VecPos : Loadu(x)
    \/ \E in \in Vec, i \in VecPos : Stream(in, i)
    \/ \E in \in Vec, i \in VecPos : Store(in, i)
    \/ \E in \in Vec, i \in VecPos : Storeu(in, i)
    \/ InvalidateCpu
    \/ InvalidateGpu
    \/ ValidateCpu
    \/ ValidateGpu
    \/ \E fresh \in Fresh(gpu_allocated(sub)) : EnsureGpuAllocated(fresh)
    \/ EnsureGpuUpToDate
    \/ EnsureCpuUpToDate
    \/ GpuEvict
    \/ \E gpu_memory \in Uniform : GpuCopyFrom(gpu_memory)
    \/ \E j \in Index, v \in Val : DeviceWrite(j, v)
    \/ \E fresh \in Fresh(sub.cpu_mem # NoMem) : VisitTemporaryAllocator(fresh)
    \/ VisitBackPropagate
    \/ \E nv \in BOOLEAN :
           VisitEvaluator("visit_evaluator", nv,
                          visit_evaluator(Begin(sub), [need_value |-> nv]))
    \/ \E nv \in BOOLEAN :
           VisitEvaluator("nd_visit_evaluator", nv,
                          nd_visit_evaluator(Begin(sub), [need_value |-> nv]))
    \/ \E fresh \in Fresh(sub.cpu_mem # NoMem), path \in Paths : AssignTo(fresh, path)
    \/ \E values \in Uniform : AssignFrom(values)
    \/ \E path \in Paths, temporary \in BOOLEAN :
           (temporary => alias(sub, memory, {"sub"})) /\ AssignToSelf(path, temporary)

Spec == Init /\ [][Next]_vars

(* ---------------- the view, non-direct specialisation ------------------- *)
\* const operator[](j)
nd_index_const(s, j) == sub_index_const(s, j)

\* read_flat(j) returning the element at the mirrored index
nd_read_flat_mirrored(s, j) == sub_read_flat(s, sub_size(s) - 1 - j)

\* read_flat(j)
nd_read_flat(s, j) == sub_read_flat(s, j)

\* const operator()(f1, f2, sizes...)
nd_call_const(s, dims, idx) == sub_index_const(s, dyn_index(dims, idx))

\* operator()(f1, f2, sizes...), the returned reference being assigned v
nd_call_mut(s, dims, idx, v) == sub_index_mut(s, dyn_index(dims, idx), v)

\* alias(rhs)
nd_alias(s, rhs) == sub_alias(s, rhs)

(* ------------------------- etl_traits of the view ----------------------- *)
\* the fields of the view the traits read
View == [dimensions |-> dimensions, _size |-> _size]

\* size(v) computed from the dimensions of the view
size_of_dimensions(v) == Product(v.dimensions)

\* etl_traits<dyn_matrix_view>::size(v), dim(v, d), dimensions()
size(v)        == v._size
dim(v, d)      == v.dimensions[d + 1]
dimensions_(v) == Len(v.dimensions)

\* the element count the dimension vector of v gives: dim(v, d) over d < D
\* memory_end() taking the element count from the dimensions
memory_end_by_dimensions(mem, v) == <<mem, Product(v.dimensions)>>

\* memory_end(): the pointer memory advanced by _size elements
memory_end(mem, v) == <<mem, v._size>>

RECURSIVE DimProduct(_, _)
DimProduct(v, d) ==
    IF d = dimensions_(v) THEN 1 ELSE dim(v, d) * DimProduct(v, d + 1)

(* ---------------- views over containers of several shapes --------------- *)
MaxExtent == 2                \* the largest extent of one dimension of a view
ViewDs    == {1, 2, 3, 4}     \* the numbers of dimensions D of the views

RECURSIVE Pow(_, _)
Pow(b, k) == IF k = 0 THEN 1 ELSE b * Pow(b, k - 1)

\* the element counts of the containers
ViewSizes == {Pow(MaxExtent, k) : k \in ViewDs}

\* the dimension vectors handed to the constructor: it takes any
ViewDimChoices == UNION {[1 .. n -> 1 .. MaxExtent] : n \in ViewDs}

\* a container filled with its own flat indices, and a value it does not hold
Ramp(n) == [k \in 1 .. n |-> k - 1]
Mark(n) == n

FlatIndex(s) == 0 .. (sub_size(s) - 1)

\* the multi-indices of a view of dimensions dims that stay inside the referent
ViewMultiIndex(dims, s) ==
    {idx \in [1 .. Len(dims) -> 0 .. (MaxExtent - 1)] :
        /\ \A k \in 1 .. Len(dims) : idx[k] < dims[k]
        /\ dyn_index(dims, idx) \in FlatIndex(s)}

\* the expressions the alias test is asked about, by the storages they use
Operands == SUBSET {"sub", "other"}

InitView ==
    /\ needs_evaluator_visitor \in BOOLEAN
    /\ \E n \in ViewSizes :
         sub = [cpu_up_to_date |-> FALSE, gpu_up_to_date |-> FALSE,
                cpu_mem |-> IF needs_evaluator_visitor THEN NoMem ELSE Ramp(n),
                gpu_mem |-> NoMem, size |-> n, error |-> "none",
                copied |-> FALSE, ret |-> << >>, ensured |-> FALSE,
                invalidated |-> FALSE]
    /\ \E dims \in ViewDimChoices :
         /\ dimensions = dims
         /\ run = [side |-> "construct", w |-> (dims :> TRUE)]
    /\ memory = dyn_matrix_view(sub, needs_evaluator_visitor)
    /\ _size = sub_size(sub)
    /\ op = "construct"
    /\ repeated = FALSE
    /\ lhs = NoLhs
    /\ pool = NoPool
    /\ egblas = NoCall
    /\ cplx = NoCplx

\* the view has been constructed and nothing was done through it since
Constructed == op \in {"construct", "visit_back_propagate"}

\* a read through the view: run keeps the index the caller asked for and
\* the value the caller got
ViewRead(name, s, asked) ==
    /\ Step(name, s)
    /\ run' = IF Failed(s) THEN NoRun
              ELSE [side |-> "read", w |-> (asked :> Returned(s))]
    /\ UNCHANGED memory

\* a write through the view: run keeps the index the caller asked for and
\* the value written
ViewWrite(name, s, asked, v) ==
    /\ Step(name, s)
    /\ run' = IF Failed(s) THEN NoRun
              ELSE [side |-> "write", w |-> (asked :> v)]
    /\ UNCHANGED memory

\* an alias test: run keeps the expression asked about and the answer
ViewAlias(name, rhs, answer) ==
    /\ Step(name, Begin(sub))
    /\ run' = [side |-> "alias", w |-> (rhs :> answer)]
    /\ UNCHANGED memory

(* -------------- B = A + A over two containers, from the spec ------------ *)
\* B left as the expression A + A, evaluated when B is read
assign_sum_lazy(s) == [lazy |-> TRUE, mem |-> NoMem]

\* B = A + A, A the container sub: the sum is evaluated into B's own buffer
assign_sum(s) ==
    [lazy |-> FALSE,
     mem |-> [j \in 1 .. sub_size(s) |->
                 Returned(sub_index_const(s, j - 1)) + Returned(sub_index_const(s, j - 1))]]

\* B[j], B the container b, while A is in state s
lhs_index_const(b, s, j) ==
    IF b.lazy
    THEN Returned(sub_index_const(s, j)) + Returned(sub_index_const(s, j))
    ELSE b.mem[j + 1]

\* one operation on a view that was just constructed, or B = A + A and then
\* one write to A, by the container or through the view
NextView ==
    \/ /\ Constructed
       /\ \E j \in FlatIndex(sub) :
             ViewRead("index_const", index_const(Begin(sub), memory, j), j)
    \/ /\ Constructed
       /\ \E j \in FlatIndex(sub) :
             ViewRead("read_flat", read_flat(Begin(sub), memory, j), j)
    \/ /\ Constructed
       /\ \E j \in FlatIndex(sub) :
             ViewRead("nd_index_const", nd_index_const(Begin(sub), j), j)
    \/ /\ Constructed
       /\ \E j \in FlatIndex(sub) :
             ViewRead("nd_read_flat", nd_read_flat(Begin(sub), j), j)
    \/ /\ Constructed /\ Len(dimensions) >= 2
       /\ \E idx \in ViewMultiIndex(dimensions, sub) :
             ViewRead("call_const",
                      call_const(Begin(sub), memory, dimensions, idx), idx)
    \/ /\ Constructed /\ Len(dimensions) >= 2
       /\ \E idx \in ViewMultiIndex(dimensions, sub) :
             ViewRead("nd_call_const",
                      nd_call_const(Begin(sub), dimensions, idx), idx)
    \/ /\ Constructed /\ Len(dimensions) >= 2
       /\ \E idx \in ViewMultiIndex(dimensions, sub) :
             ViewWrite("call_mut",
                       call_mut(Begin(sub), memory, dimensions, idx,
                                Mark(sub_size(sub))),
                       idx, Mark(sub_size(sub)))
    \/ /\ Constructed /\ Len(dimensions) >= 2
       /\ \E idx \in ViewMultiIndex(dimensions, sub) :
             ViewWrite("nd_call_mut",
                       nd_call_mut(Begin(sub), dimensions, idx,
                                   Mark(sub_size(sub))),
                       idx, Mark(sub_size(sub)))
    \/ /\ Constructed
       /\ \E rhs \in Operands : ViewAlias("alias", rhs, alias(sub, memory, rhs))
    \/ /\ Constructed
       /\ \E rhs \in Operands : ViewAlias("nd_alias", rhs, nd_alias(sub, rhs))
    \/ /\ op = "construct"
       /\ VisitBackPropagate
    \/ /\ Constructed /\ ~needs_evaluator_visitor
       /\ StepAssign("assign_sum", Begin(sub), assign_sum(sub))
       /\ run' = NoRun /\ UNCHANGED memory
    \/ /\ op = "assign_sum"
       /\ \E j \in FlatIndex(sub) :
             StepAssign("sub_index_mut",
                        sub_index_mut(Begin(sub), j, Mark(sub_size(sub))), lhs)
       /\ run' = NoRun /\ UNCHANGED memory
    \/ /\ op = "assign_sum"
       /\ \E j \in FlatIndex(sub) :
             StepAssign("index_mut",
                        index_mut(Begin(sub), memory, j, Mark(sub_size(sub))), lhs)
       /\ run' = NoRun /\ UNCHANGED memory

SpecView == InitView /\ [][NextView]_vars

(* --------------- max_pool_3d, from the tests and the spec --------------- *)
\* a tensor is its dimensions and its elements in row-major order, as the
\* initialiser lists of the tests give them
PoolMax == 2                  \* the largest extent of one dimension of a window

\* the multi-index of the row-major position q in a tensor of dimensions dims
Unflat(dims, q) ==
    [k \in 1 .. Len(dims) |->
        (q \div Product(SubSeq(dims, k + 1, Len(dims)))) % dims[k]]

Last3(d) == SubSeq(d, Len(d) - 2, Len(d))    \* the pooled dimensions
Lead(d)  == SubSeq(d, 1, Len(d) - 3)         \* the leading index of a 4D tensor

\* the dimensions of the output for window c, stride s and padding p
pool_dims(dims, c, s, p) ==
    Lead(dims) \o [k \in 1 .. 3 |-> (Last3(dims)[k] - c[k] + 2 * p[k]) \div s[k] + 1]

\* the largest element of S; no element at all leaves the initial 0
SetMax(S) == IF S = {} THEN 0 ELSE CHOOSE m \in S : \A x \in S : x <= m

\* the window laid out without the padding offset
pool_window_unpadded(o, c, s, p) ==
    {[k \in 1 .. 3 |-> Last3(o)[k] * s[k] + x[k]] :
        x \in {Unflat(c, q) : q \in 0 .. (Product(c) - 1)}}

\* the cells of the window of the output element o, the padding applied
pool_window(o, c, s, p) ==
    {[k \in 1 .. 3 |-> Last3(o)[k] * s[k] - p[k] + x[k]] :
        x \in {Unflat(c, q) : q \in 0 .. (Product(c) - 1)}}

\* the kernel: every output element is the maximum over its window; pad tells
\* what a padding cell contributes, nothing ("skip") or the value 0 ("zero")
max_pool_3d_apply(a, dims, c, s, p, pad) ==
    LET od == pool_dims(dims, c, s, p)
        inside(w) == \A k \in 1 .. 3 : w[k] >= 0 /\ w[k] < Last3(dims)[k]
        value(o) ==
            LET win == pool_window(o, c, s, p)
            IN  SetMax({a[dyn_index(dims, Lead(o) \o w) + 1] :
                            w \in {v \in win : inside(v)}}
                       \cup (IF pad = "zero" /\ \E v \in win : ~inside(v)
                             THEN {0} ELSE {}))
    IN  [dims |-> od,
         mem |-> [q \in 1 .. Product(od) |-> value(Unflat(od, q - 1))]]

\* window, stride and padding of a call: stride and padding default to the
\* window and to none
pool_window_of(args)  == SubSeq(args, 1, 3)
pool_stride_of(args)  == IF Len(args) = 3 THEN SubSeq(args, 1, 3) ELSE SubSeq(args, 4, 6)
pool_padding_of(args) == IF Len(args) = 3 THEN <<0, 0, 0>> ELSE SubSeq(args, 7, 9)

\* max_pool_3d(a, c1, c2, c3) taking the stride as 1
max_pool_3d_dyn_unit_stride(a, dims, args, pad) ==
    max_pool_3d_apply(a, dims, pool_window_of(args),
                      IF Len(args) = 3 THEN <<1, 1, 1>> ELSE pool_stride_of(args),
                      pool_padding_of(args), pad)

\* max_pool_3d<C1, C2, C3[, S1, S2, S3, P1, P2, P3]>(a)
max_pool_3d(a, dims, args, pad) ==
    max_pool_3d_apply(a, dims, pool_window_of(args), pool_stride_of(args),
                      pool_padding_of(args), pad)

\* max_pool_3d(a, c1, c2, c3[, s1, s2, s3, p1, p2, p3])
max_pool_3d_dyn(a, dims, args, pad) ==
    max_pool_3d_apply(a, dims, pool_window_of(args), pool_stride_of(args),
                      pool_padding_of(args), pad)

\* the fills of the inputs: 1..n, 1..8 for each leading index, n..1
Fill(fill, dims) ==
    [q \in 1 .. Product(dims) |->
        CASE fill = "ramp"    -> q
          [] fill = "tile"    -> ((q - 1) % Product(Last3(dims))) + 1
          [] fill = "reverse" -> Product(dims) + 1 - q]

\* pooling/max3/1..5 and dyn_pooling/max3/1..5: input, call, the dimensions
\* b is declared with and the values required of b; pad is the kernel's
\* treatment of padding cells, which the tests do not fix
PoolTest(form, dims, fill, args, bdims, values) ==
    [form |-> form, dims |-> dims, a |-> Fill(fill, dims), args |-> args,
     pad |-> "skip", expect |-> [dims |-> bdims, mem |-> values], b |-> NoMem]

PoolTestCases(form) ==
    { PoolTest(form, <<2, 4, 4>>, "ramp", <<2, 2, 2>>, <<1, 2, 2>>, <<22, 24, 30, 32>>),
      PoolTest(form, <<2, 4, 4>>, "ramp", <<2, 4, 2>>, <<1, 1, 2>>, <<30, 32>>),
      PoolTest(form, <<2, 4, 4>>, "ramp", <<1, 4, 4>>, <<2, 1, 1>>, <<16, 32>>),
      PoolTest(form, <<2, 2, 2, 2>>, "tile", <<2, 2, 2, 2, 2, 2, 1, 1, 1>>,
               <<2, 2, 2, 2>>, <<1, 2, 3, 4, 5, 6, 7, 8, 1, 2, 3, 4, 5, 6, 7, 8>>),
      PoolTest(form, <<2, 2, 2, 2>>, "tile", <<1, 2, 2>>, <<2, 2, 1, 1>>,
               <<4, 8, 4, 8>>) }

\* further calls: every window of extents up to PoolMax over inputs of one
\* or two windows per dimension; over inputs of one window also with stride 1
\* and, where the window is wider than 1, with a padding of 1
PoolCall(form, lead, c, m, s, p, fill) ==
    [form |-> form, dims |-> lead \o [k \in 1 .. 3 |-> c[k] * m[k]],
     a |-> Fill(fill, lead \o [k \in 1 .. 3 |-> c[k] * m[k]]),
     args |-> IF s = c /\ p = <<0, 0, 0>> THEN c ELSE c \o s \o p,
     pad |-> "skip", expect |-> NoMem, b |-> NoMem]

PoolCalls ==
    LET forms == {"static", "dynamic"} \X {<< >>, <<2>>} \X {"ramp", "reverse"}
    IN  UNION { { PoolCall(f[1], f[2], c, m, c, <<0, 0, 0>>, f[3]) :
                    f \in forms, m \in [1 .. 3 -> {1, 2}] }
                \cup
                { PoolCall(f[1], f[2], c, <<1, 1, 1>>, s, p, f[3]) :
                    f \in forms, s \in {c, <<1, 1, 1>>},
                    p \in {<<0, 0, 0>>}
                          \cup {q \in {<<1, 1, 1>>} : \A k \in 1 .. 3 : c[k] > 1} }
              : c \in [1 .. 3 -> 1 .. PoolMax] }

InitPool ==
    /\ \E call \in PoolTestCases("static") \cup PoolTestCases("dynamic") \cup PoolCalls,
          pad \in {"skip", "zero"} :
         pool = [call EXCEPT !.pad = pad]
    /\ sub = NoMem /\ memory = NullPtr /\ dimensions = << >>
    /\ needs_evaluator_visitor = FALSE /\ _size = 0
    /\ op = "call" /\ repeated = FALSE /\ run = NoRun /\ lhs = NoLhs
    /\ egblas = NoCall /\ cplx = NoCplx

\* b = max_pool_3d<...>(a) and b = max_pool_3d(a, ...)
Pooled(b) ==
    /\ pool' = [pool EXCEPT !.b = b]
    /\ op' = "max_pool_3d"
    /\ UNCHANGED <<sub, memory, dimensions, needs_evaluator_visitor, _size,
                   repeated, run, lhs, egblas, cplx>>

NextPool ==
    \/ /\ op = "call" /\ pool.form = "static"
       /\ Pooled(max_pool_3d(pool.a, pool.dims, pool.args, pool.pad))
    \/ /\ op = "call" /\ pool.form = "dynamic"
       /\ Pooled(max_pool_3d_dyn(pool.a, pool.dims, pool.args, pool.pad))

SpecPool == InitPool /\ [][NextPool]_vars

(* ------------------ egblas wrappers (apxdbpy_3, softplus) --------------- *)
\* the precisions a wrapper is overloaded for: float, double, complex<float>,
\* complex<double>
Precisions == {"s", "d", "c", "z"}

\* cpp_unreachable(message): the ways the statement can end. With assertions
\* enabled it is a failed assertion; without them it tells the compiler that
\* the point is never reached, and reaching it is undefined: the call traps
\* or runs on and returns
cpp_unreachable(assertions) ==
    IF assertions THEN {"aborted"} ELSE {"aborted", "returned"}

\* the vendor kernel egblas_<p>apxdbpy_3 / egblas_<p>softplus: it writes
\* every element of the output
egblas_kernel(c) ==
    [c EXCEPT !.invoked = TRUE, !.out = [k \in DOMAIN c.out |-> "written"]]

\* inc_counter("egblas")
inc_counter(c) == [c EXCEPT !.counter = c.counter + 1]

\* the body of a wrapper: under #ifdef EGBLAS_HAS_... the counter and the
\* kernel, else cpp_unused(...) and cpp_unreachable(...)
egblas_wrapper(c) ==
    IF c.has
    THEN {[egblas_kernel(inc_counter(c)) EXCEPT !.outcome = "returned"]}
    ELSE {[c EXCEPT !.outcome = o] : o \in cpp_unreachable(c.assertions)}

\* apxdbpy_3(n, alpha, A, lda, beta, B, ldb, C, ldc)
apxdbpy_3(c) == egblas_wrapper(c)

\* softplus(n, alpha, A, lda, B, ldb)
softplus(c) == egblas_wrapper(c)

InitEgblas ==
    /\ \E fn \in {"apxdbpy_3", "softplus"}, p \in Precisions,
          has \in BOOLEAN, assertions \in BOOLEAN, out \in Buffer :
         egblas = [fn |-> fn, precision |-> p, has |-> has,
                   assertions |-> assertions, before |-> out, out |-> out,
                   counter |-> 0, invoked |-> FALSE, outcome |-> "pending"]
    /\ sub = NoMem /\ memory = NullPtr /\ dimensions = << >>
    /\ needs_evaluator_visitor = FALSE /\ _size = 0
    /\ op = "call" /\ repeated = FALSE /\ run = NoRun /\ lhs = NoLhs
    /\ pool = NoPool /\ cplx = NoCplx

EgblasCall(name, ends) ==
    /\ op = "call" /\ egblas.fn = name
    /\ egblas' \in ends
    /\ op' = name
    /\ UNCHANGED <<sub, memory, dimensions, needs_evaluator_visitor, _size,
                   repeated, run, lhs, pool, cplx>>

NextEgblas ==
    \/ EgblasCall("apxdbpy_3", apxdbpy_3(egblas))
    \/ EgblasCall("softplus", softplus(egblas))

SpecEgblas == InitEgblas /\ [][NextEgblas]_vars

(* ----------------------------- etl::complex --------------------------- *)
\* the values of a component (value_type float or double) are written
\* <<n, d>>: the quotient n / d in lowest terms with d > 0, <<1, 0>> and
\* <<-1, 0>> for the infinities and <<0, 0>> for NaN. The operands are the
\* integers up to MaxComp in magnitude and NaN
MaxComp == 2
NaN     == <<0, 0>>
Whole(n) == <<n, 1>>
Comp    == { Whole(n) : n \in -MaxComp .. MaxComp } \cup {NaN}

RECURSIVE Gcd(_, _)
Gcd(a, b) == IF b = 0 THEN a ELSE Gcd(b, a % b)
Abs(a)    == IF a < 0 THEN -a ELSE a
Sgn(a)    == IF a < 0 THEN -1 ELSE IF a > 0 THEN 1 ELSE 0
Norm(n, d) ==
    IF d = 0 THEN <<Sgn(n), 0>>
    ELSE LET g == Gcd(Abs(n), Abs(d))
         IN  <<Sgn(d) * (n \div g), Abs(d) \div g>>

\* T's arithmetic: NaN is contagious, infinities of opposite sign add up to
\* NaN, a division by zero gives an infinity or, for 0 / 0, NaN
Neg(a)    == <<-a[1], a[2]>>
Add(a, b) ==
    IF a = NaN \/ b = NaN THEN NaN
    ELSE IF a[2] = 0 /\ b[2] = 0 THEN (IF a = b THEN a ELSE NaN)
    ELSE Norm(a[1] * b[2] + b[1] * a[2], a[2] * b[2])
Sub(a, b) == Add(a, Neg(b))
Mul(a, b) == Norm(a[1] * b[1], a[2] * b[2])
Div(a, b) == Norm(a[1] * b[2], a[2] * b[1])

\* T's ==: a NaN is equal to nothing, itself included
Eq(a, b) == a # NaN /\ b # NaN /\ a = b

\* complex(re, im)
complex(re, im) == [real |-> re, imag |-> im]

\* operator+=(rhs), operator-=(rhs): the components are assigned one after
\* the other; rhs names the object itself when self holds
plus_assign(x, y, self) ==
    LET x1 == [x EXCEPT !.real = Add(x.real, (IF self THEN x ELSE y).real)]
    IN  [x1 EXCEPT !.imag = Add(x1.imag, (IF self THEN x1 ELSE y).imag)]

minus_assign(x, y, self) ==
    LET x1 == [x EXCEPT !.real = Sub(x.real, (IF self THEN x ELSE y).real)]
    IN  [x1 EXCEPT !.imag = Sub(x1.imag, (IF self THEN x1 ELSE y).imag)]

\* operator*=(rhs) assigning real before bc and ad are read
times_assign_in_place(x, y, self) ==
    LET x1 == [x EXCEPT !.real = Sub(Mul(x.real, (IF self THEN x ELSE y).real),
                                     Mul(x.imag, (IF self THEN x ELSE y).imag))]
        rhs == IF self THEN x1 ELSE y
    IN  [x1 EXCEPT !.imag = Add(Mul(x1.imag, rhs.real), Mul(x1.real, rhs.imag))]

\* operator*=(rhs): ac, bd, bc, ad are read before real and imag are assigned
times_assign(x, y, self) ==
    LET rhs == IF self THEN x ELSE y
        ac == Mul(x.real, rhs.real)
        bd == Mul(x.imag, rhs.imag)
        bc == Mul(x.imag, rhs.real)
        ad == Mul(x.real, rhs.imag)
    IN  [x EXCEPT !.real = Sub(ac, bd), !.imag = Add(bc, ad)]

\* operator/=(rhs)
divide_assign(x, y, self) ==
    LET rhs == IF self THEN x ELSE y
        ac == Mul(x.real, rhs.real)
        bd == Mul(x.imag, rhs.imag)
        bc == Mul(x.imag, rhs.real)
        ad == Mul(x.real, rhs.imag)
        frac == Add(Mul(rhs.real, rhs.real), Mul(rhs.imag, rhs.imag))
    IN  [x EXCEPT !.real = Div(Add(ac, bd), frac), !.imag = Div(Sub(bc, ad), frac)]

\* operator==, operator!=
equals(left, rhs)     == Eq(left.real, rhs.real) /\ Eq(left.imag, rhs.imag)
not_equals(left, rhs) == ~equals(left, rhs)

\* operator+, operator-, operator*, operator/ of two complex values
plus(left, rhs)  == complex(Add(left.real, rhs.real), Add(left.imag, rhs.imag))
minus(left, rhs) == complex(Sub(left.real, rhs.real), Sub(left.imag, rhs.imag))
times(left, rhs) ==
    LET ac == Mul(left.real, rhs.real)
        bd == Mul(left.imag, rhs.imag)
        bc == Mul(left.imag, rhs.real)
        ad == Mul(left.real, rhs.imag)
    IN  complex(Sub(ac, bd), Add(bc, ad))
divide(left, rhs) ==
    LET ac == Mul(left.real, rhs.real)
        bd == Mul(left.imag, rhs.imag)
        bc == Mul(left.imag, rhs.real)
        ad == Mul(left.real, rhs.imag)
        frac == Add(Mul(rhs.real, rhs.real), Mul(rhs.imag, rhs.imag))
    IN  complex(Div(Add(ac, bd), frac), Div(Sub(bc, ad), frac))

\* conj_inverse(x) returning the inverse of the conj
conj_inverse_swapped(x) == complex(Neg(x.imag), x.real)

\* inverse, inverse_conj, conj_inverse, conj
inverse(x)      == complex(x.imag, x.real)
inverse_conj(x) == complex(Neg(x.imag), x.real)
conj_inverse(x) == complex(x.imag, Neg(x.real))
conj(rhs)       == complex(rhs.real, Neg(rhs.imag))

\* the statements: x op= y (self_rhs: y is x itself), z = x op y, z = f(x)
Compound == {"+=", "-=", "*=", "/="}
Binary   == {"+", "-", "*", "/"}
Unary    == {"inverse", "inverse_conj", "conj_inverse", "conj"}

InitComplex ==
    /\ \E stmt \in Compound \cup Binary \cup Unary, self \in BOOLEAN,
          a \in Comp, b \in Comp, c \in Comp, d \in Comp :
         /\ self \/ stmt \in Unary => c = a /\ d = b
         /\ self => stmt \in Compound
         /\ cplx = [stmt |-> stmt, self_rhs |-> self, x |-> complex(a, b),
                    y |-> complex(c, d), out |-> NoCplx]
    /\ sub = NoMem /\ memory = NullPtr /\ dimensions = << >>
    /\ needs_evaluator_visitor = FALSE /\ _size = 0
    /\ op = "statement" /\ repeated = FALSE /\ run = NoRun /\ lhs = NoLhs
    /\ pool = NoPool /\ egblas = NoCall

\* the statement stmt is executed; out is x after a compound assignment and
\* the value returned otherwise
Evaluate(stmt, out) ==
    /\ op = "statement" /\ cplx.stmt = stmt
    /\ cplx' = [cplx EXCEPT !.out = out]
    /\ op' = stmt
    /\ UNCHANGED <<sub, memory, dimensions, needs_evaluator_visitor, _size,
                   repeated, run, lhs, pool, egblas>>

NextComplex ==
    \/ Evaluate("+=", plus_assign(cplx.x, cplx.y, cplx.self_rhs))
    \/ Evaluate("-=", minus_assign(cplx.x, cplx.y, cplx.self_rhs))
    \/ Evaluate("*=", times_assign(cplx.x, cplx.y, cplx.self_rhs))
    \/ Evaluate("/=", divide_assign(cplx.x, cplx.y, cplx.self_rhs))
    \/ Evaluate("+", plus(cplx.x, cplx.y))
    \/ Evaluate("-", minus(cplx.x, cplx.y))
    \/ Evaluate("*", times(cplx.x, cplx.y))
    \/ Evaluate("/", divide(cplx.x, cplx.y))
    \/ Evaluate("inverse", inverse(cplx.x))
    \/ Evaluate("inverse_conj", inverse_conj(cplx.x))
    \/ Evaluate("conj_inverse", conj_inverse(cplx.x))
    \/ Evaluate("conj", conj(cplx.x))

SpecComplex == InitComplex /\ [][NextComplex]_vars

(* ============================ properties =============================== *)
HostReadOps  == {"index_const", "call1_const", "call_const", "read_flat", "load", "loadu"}
HostWriteOps == {"index_mut", "call1_mut", "call_mut", "store", "storeu", "stream"}
\* the host write paths that go through ensure-host-current / invalidate-device
DisciplinedWriteOps == {"index_mut", "call1_mut", "call_mut", "store"}

\* flags and buffers of the referent
Core(s) == <<s.cpu_up_to_date, s.gpu_up_to_date, s.cpu_mem, s.gpu_mem>>

\* C1: after a run of host writes through the mutable element accessors and
\* then ensure_gpu_up_to_date, the device buffer holds the latest host write
\* at the index followed by run (any index of the run); after a run of
\* device writes (each followed by invalidate_cpu) and then
\* ensure_cpu_up_to_date, a host read through the view at that index returns
\* the latest device write.
C1_CoherencyRoundTrip ==
    /\ run.side = "host_synced" =>
          /\ gpu_allocated(sub)
          /\ \A j \in DOMAIN run.w : sub.gpu_mem[j + 1] = run.w[j]
    /\ (run.side = "device_synced" /\ op \in HostReadOps /\ ~Failed(sub)) =>
          \A j \in (DOMAIN sub.ret) \cap (DOMAIN run.w) : sub.ret[j] = run.w[j]

\* a host read that returned a value written on the device side
C1_Witness ==
    /\ run.side = "device_synced" /\ op = "index_const" /\ ~Failed(sub)
    /\ (DOMAIN sub.ret) \cap (DOMAIN run.w) # {}
    /\ needs_evaluator_visitor = FALSE

\* C2: every path of the view that writes host memory has called
\* ensure-host-current and invalidate-device, and leaves the device flag
\* of the referent cleared.
C2_WritePathsInvalidate ==
    (op \in HostWriteOps /\ ~Failed(sub)) =>
        sub.ensured /\ sub.invalidated /\ ~sub.gpu_up_to_date

\* C3: every path of the view that reads through the cached pointer has
\* called ensure-host-current before the dereference.
C3_ReadPathsEnsure ==
    (op \in HostReadOps /\ ~Failed(sub)) => sub.ensured

C5_EnsureHostCurrent ==
    [][(op' = "ensure_cpu_up_to_date" /\ ~Failed(sub')) =>
          IF DeviceValid(sub)
          THEN /\ sub'.copied
               /\ sub'.cpu_mem = sub.gpu_mem /\ sub'.gpu_mem = sub.gpu_mem
               /\ BothValid(sub')
          ELSE ~sub'.copied /\ Core(sub') = Core(sub)]_vars

\* ensure-host-current has copied the device buffer to the host
C5_Witness ==
    /\ op = "ensure_cpu_up_to_date" /\ sub.copied /\ BothValid(sub)
    /\ sub.cpu_mem = sub.gpu_mem /\ ~Failed(sub)

C7_InvalidateTargets ==
    [][/\ op' = "invalidate_cpu" => DeviceValid(sub')
       /\ op' = "invalidate_gpu" => HostValid(sub')]_vars

\* invalidate-device called while the device copy was valid
C7_Witness ==
    /\ op = "invalidate_gpu" /\ HostValid(sub) /\ gpu_allocated(sub)
    /\ ~Failed(sub)

\* C8: invalidate-host without a device buffer leads to the error state, and
\* only then: no state without error has had its host flag cleared by
\* invalidate-host while the device buffer is absent.
C8_InvalidateHostNeedsDevice ==
    [][/\ op' = "invalidate_cpu" => (Failed(sub') <=> ~gpu_allocated(sub))
       /\ (op' \in {"invalidate_cpu", "device_write"} /\ ~Failed(sub')) =>
              gpu_allocated(sub')]_vars

\* invalidate-host was called with no device buffer
C8_Witness ==
    /\ op = "invalidate_cpu" /\ sub.error = "invalidate_cpu_without_gpu"
    /\ ~gpu_allocated(sub)

\* C9: validate-host and validate-device set their own flag, copy nothing
\* and leave the other flag and both buffers as they were.
C9_ValidateSetsOwnFlag ==
    [][/\ op' = "validate_cpu" =>
              /\ sub'.cpu_up_to_date /\ ~sub'.copied
              /\ sub'.gpu_up_to_date = sub.gpu_up_to_date
              /\ sub'.cpu_mem = sub.cpu_mem /\ sub'.gpu_mem = sub.gpu_mem
       /\ op' = "validate_gpu" =>
              /\ sub'.gpu_up_to_date /\ ~sub'.copied
              /\ sub'.cpu_up_to_date = sub.cpu_up_to_date
              /\ sub'.cpu_mem = sub.cpu_mem /\ sub'.gpu_mem = sub.gpu_mem]_vars

\* validate-device called while the host side was not valid
C9_Witness ==
    op = "validate_gpu" /\ DeviceValid(sub) /\ ~Failed(sub)

\* C10: a second ensure-host-current right after a first one performs no
\* copy and leaves the flags and both buffers unchanged.
C10_EnsureHostIdempotent ==
    [][(op = "ensure_cpu_up_to_date" /\ op' = "ensure_cpu_up_to_date") =>
          ~sub'.copied /\ Core(sub') = Core(sub)]_vars

\* ensure-host-current called twice in a row, the first call having copied
C10_Witness ==
    /\ op = "ensure_cpu_up_to_date" /\ repeated /\ ~sub.copied
    /\ BothValid(sub) /\ sub.cpu_mem = sub.gpu_mem /\ gpu_allocated(sub)
    /\ ~Failed(sub)

(* --------------------- element access through a view ------------------- *)
FlatReadOps   == {"index_const", "read_flat", "nd_index_const", "nd_read_flat"}
MultiWriteOps == {"call_mut", "nd_call_mut"}

\* the view's dimensions multiply to the referent's element count
ShapePreserving == Product(dimensions) = sub_size(sub)

\* element k of the container, read by the container itself
Element(k) == sub_index_const(sub, k).ret[k]

\* C11: a flat-index read through a shape-preserving view, by operator[] or
\* read_flat of either specialisation, returns the element the container
\* itself returns at the same index.
C11_FlatAccessAgrees ==
    (op \in FlatReadOps /\ ~Failed(sub) /\ ShapePreserving) =>
        /\ DOMAIN run.w # {}
        /\ \A j \in DOMAIN run.w : run.w[j] = Element(j)

\* read_flat at the last index of a 16-element container viewed in four
\* dimensions
C11_Witness ==
    /\ op = "read_flat" /\ ~Failed(sub) /\ ShapePreserving
    /\ Len(dimensions) = 4 /\ sub_size(sub) = 16
    /\ run.w = (15 :> 15)

\* the row-major position of the multi-index idx: each index weighted by the
\* product of the extents that follow it
RECURSIVE RowMajor(_, _)
RowMajor(dims, idx) ==
    IF idx = << >> THEN 0
    ELSE Head(idx) * Product(Tail(dims)) + RowMajor(Tail(dims), Tail(idx))

C13_AliasPassThrough ==
    (op \in {"alias", "nd_alias"}) =>
        /\ DOMAIN run.w # {}
        /\ \A rhs \in DOMAIN run.w : run.w[rhs] = sub_alias(sub, rhs)

\* a view whose cached pointer is null aliases an expression over its referent
C13_Witness ==
    /\ op = "alias" /\ memory = NullPtr /\ Len(dimensions) = 3
    /\ run.w = ({"sub", "other"} :> TRUE)

C15_AssignmentDeliversSource ==
    (op = "assign_to" /\ ~Failed(sub)) =>
        /\ DOMAIN lhs = 1 .. sub_size(sub)
        /\ \A j \in Index : lhs[j + 1] = Element(j)

\* a vectorized assignment from a view whose referent was current on the
\* device only: the values delivered are the device's
C15_Witness ==
    /\ op = "assign_to" /\ ~Failed(sub) /\ run.side = "vectorized"
    /\ sub.copied /\ gpu_allocated(sub) /\ lhs = sub.gpu_mem
    /\ lhs # [k \in 1 .. Size |-> 0]

\* C16: assigning a container to itself through a shape-preserving view of
\* it leaves every element with the value it had.
C16_SelfAssignmentKeepsValues ==
    [][(op' = "assign_to_self" /\ ~Failed(sub')) =>
          \A j \in Index :
              sub_index_const(sub', j).ret[j] = sub_index_const(sub, j).ret[j]]_vars

\* a self-assignment of a container whose current data was on the device
C16_Witness ==
    /\ op = "assign_to_self" /\ ~Failed(sub) /\ sub.copied
    /\ HostValid(sub) /\ sub.cpu_mem = sub.gpu_mem
    /\ \E j, k \in Index : sub.cpu_mem[j + 1] # sub.cpu_mem[k + 1]

\* C17: once B = A + A has been evaluated, a write to an element of A, by
\* the container or through a view of it, leaves every element of B as it
\* was.
C17_SumIndependentOfSource ==
    [][(op = "assign_sum" /\ ~Failed(sub')) =>
          \A j \in FlatIndex(sub) :
              lhs_index_const(lhs', sub', j) = lhs_index_const(lhs, sub, j)]_vars

\* the last element of A written after B = A + A, B still twice the old one
C17_Witness ==
    /\ op = "index_mut" /\ lhs # NoLhs /\ ~Failed(sub) /\ sub_size(sub) = 4
    /\ sub.cpu_mem[4] = Mark(4) /\ lhs_index_const(lhs, sub, 3) = 6

(* ------------------------------ pooling --------------------------------- *)
\* the multi-indices of a tensor of dimensions dims
Indices(dims) == {Unflat(dims, q) : q \in 0 .. (Product(dims) - 1)}

\* the input cells that fall into the window of output element o when the
\* windows of extents c tile the input
Tile(dims, c, o) ==
    {i \in Indices(dims) :
        /\ Lead(i) = Lead(o)
        /\ \A k \in 1 .. 3 : Last3(i)[k] \div c[k] = Last3(o)[k]}

\* C18: with stride equal to the window and no padding the output's last three
\* extents are the input's divided by the window, every output element is the
\* largest input element of its window under the same leading index, and the
\* values the tests require (22, 24, 30, 32 for the 2x4x4 input) are produced
C18_PoolIsWindowMaximum ==
    op = "max_pool_3d" /\ Len(pool.args) = 3 =>
        LET c  == pool.args
            od == Lead(pool.dims) \o [k \in 1 .. 3 |-> Last3(pool.dims)[k] \div c[k]]
            at(i) == pool.a[RowMajor(pool.dims, i) + 1]
        IN  /\ pool.b.dims = od
            /\ DOMAIN pool.b.mem = 1 .. Product(od)
            /\ \A o \in Indices(od) :
                 LET v == pool.b.mem[RowMajor(od, o) + 1]
                 IN  /\ \E i \in Tile(pool.dims, c, o) : at(i) = v
                     /\ \A i \in Tile(pool.dims, c, o) : at(i) <= v
            /\ pool.expect # NoMem => pool.b = pool.expect

C18_Witness ==
    /\ op = "max_pool_3d" /\ pool.form = "static"
    /\ pool.dims = <<2, 4, 4>> /\ pool.args = <<2, 2, 2>>
    /\ pool.a[1] = 1 /\ pool.a[32] = 32
    /\ pool.b = [dims |-> <<1, 2, 2>>, mem |-> <<22, 24, 30, 32>>]

\* C20: window 2, stride 2 and padding 1 on pooled dimensions of extent 2
\* keep the shape, and for positive inputs every output element is the input
\* element at the same index, whatever a padding cell contributes
C20_PaddingKeepsPositiveInput ==
    /\ op = "max_pool_3d"
    /\ pool.args = <<2, 2, 2, 2, 2, 2, 1, 1, 1>>
    /\ Last3(pool.dims) = <<2, 2, 2>>
    /\ \A q \in DOMAIN pool.a : pool.a[q] > 0
    => /\ pool.b.dims = pool.dims
       /\ pool.b.mem = pool.a
       /\ pool.expect # NoMem => pool.b = pool.expect

C20_Witness ==
    /\ op = "max_pool_3d" /\ pool.form = "dynamic" /\ pool.pad = "zero"
    /\ pool.dims = <<2, 2, 2, 2>>
    /\ pool.args = <<2, 2, 2, 2, 2, 2, 1, 1, 1>>
    /\ pool.expect # NoMem
    /\ pool.b.mem = <<1, 2, 3, 4, 5, 6, 7, 8, 1, 2, 3, 4, 5, 6, 7, 8>>

(* --------------------------- egblas wrappers ---------------------------- *)
\* C21: a call of an egblas wrapper in a build without the kernel for the
\* precision never returns normally, invokes no vendor kernel and leaves the
\* output buffer as it was
C21_AbsentKernelFailsHard ==
    egblas # NoCall /\ ~egblas.has /\ egblas.outcome # "pending" =>
        /\ egblas.outcome = "aborted"
        /\ ~egblas.invoked /\ egblas.counter = 0
        /\ egblas.out = egblas.before

(* -------------------------- evaluator visitor --------------------------- *)
EvaluatorVisits == {"visit_evaluator", "nd_visit_evaluator"}

\* the temporary-allocation pass has flagged the referent: it needs the
\* evaluator and has been given its temporary
Flagged == needs_evaluator_visitor /\ sub.cpu_mem # NoMem

\* C22: the view visits its referent with need_value true only if the
\* temporary-allocation pass has flagged the referent, and with the
\* incoming need_value otherwise
C22_NoForcedMaterialisation ==
    op \in EvaluatorVisits =>
        run.w.seen = (IF Flagged THEN TRUE ELSE run.w.incoming)

\* C25: after visit(evaluator_visitor&) of either specialisation the
\* visitor's need_value is what it was before the visit, for both incoming
\* values, and the referent has been visited with need_value true
C25_NeedValueRestored ==
    op \in EvaluatorVisits => run.w.after = run.w.incoming /\ run.w.seen

C25_Witness ==
    /\ op = "nd_visit_evaluator"
    /\ ~run.w.incoming /\ run.w.seen /\ ~run.w.after

C24_CoherencyCallsBatched ==
    op = "assign_from" /\ ~Failed(sub) =>
        run.w.ensure = 1 /\ run.w.invalidate = 1

(* --------------------------- bulk writes -------------------------------- *)
\* s holds the vector in at the elements [i, i + Width) of its host buffer
Holds(s, in, i) == \A k \in 1 .. Width : s.cpu_mem[i + k] = in[k]

\* store, storeu and stream of the vector in at i end alike, and where they
\* go through each has written in to the elements [i, i + Width) of the
\* host buffer
BulkWritesAgree(in, i) ==
    LET a == store(Begin(sub), memory, in, i)
        b == storeu(Begin(sub), memory, in, i)
        c == stream(Begin(sub), memory, in, i)
    IN  /\ a.error = b.error /\ b.error = c.error
        /\ ~Failed(a) => Holds(a, in, i) /\ Holds(b, in, i) /\ Holds(c, in, i)

\* the ensure-host-current that store makes has the buffers it needs: its
\* failure is a failure of the coherency protocol, no difference of target
HostCopyPossible ==
    ~(DeviceValid(sub) /\ (sub.gpu_mem = NoMem \/ sub.cpu_mem = NoMem))

OnReferent(name, s) ==
    CASE name = "invalidate_cpu"        -> {sub_invalidate_cpu(s)}
      [] name = "invalidate_gpu"        -> {sub_invalidate_gpu(s)}
      [] name = "validate_cpu"          -> {sub_validate_cpu(s)}
      [] name = "validate_gpu"          -> {sub_validate_gpu(s)}
      [] name = "ensure_cpu_up_to_date" -> {sub_ensure_cpu_up_to_date(s)}
      [] name = "ensure_gpu_up_to_date" -> {sub_ensure_gpu_up_to_date(s)}
      [] name = "ensure_gpu_allocated"  ->
            {sub_ensure_gpu_allocated(s, f) : f \in Fresh(gpu_allocated(s))}
      [] name = "gpu_evict"             -> {sub_gpu_evict(s)}
      [] name = "gpu_copy_from"         -> {sub_gpu_copy_from(s, g) : g \in Buffer}
      [] OTHER                          -> {}

CoherencyOps ==
    {"invalidate_cpu", "invalidate_gpu", "validate_cpu", "validate_gpu",
     "ensure_cpu_up_to_date", "ensure_gpu_up_to_date", "ensure_gpu_allocated",
     "gpu_evict", "gpu_copy_from"}

\* C27: the view has no coherency state of its own: its is_cpu_up_to_date
\* and is_gpu_up_to_date are the referent's, every coherency operation on
\* the view does to the referent what the same operation does when called
\* on the referent, and none changes the view's dimensions, size or pointer
C27_CoherencyIsTheReferents ==
    [][/\ op' \in CoherencyOps =>
            /\ sub' \in OnReferent(op', Begin(sub))
            /\ memory' = memory /\ dimensions' = dimensions /\ _size' = _size
       /\ is_cpu_up_to_date(sub') = sub_is_cpu_up_to_date(sub')
       /\ is_gpu_up_to_date(sub') = sub_is_gpu_up_to_date(sub')]_vars

C27_Witness ==
    /\ op = "gpu_copy_from" /\ DeviceValid(sub) /\ sub.gpu_mem # NoMem
    /\ is_gpu_up_to_date(sub) /\ ~is_cpu_up_to_date(sub)
    /\ memory = sub_memory_start(sub) /\ memory # NullPtr

(* ------------------------------- size ----------------------------------- *)
\* C28: the size of a view is the referent's element count from the
\* construction on, whatever dimensions were supplied, and never changes;
\* dim(v, d) is the d-th dimension supplied, in every state; memory_end() is
\* memory_start() advanced by exactly that size
C28_SizeFixedAtConstruction ==
    /\ op = "construct" =>
          /\ size(View) = sub_size(sub)
          /\ \A dims \in DOMAIN run.w :
                /\ dimensions_(View) = Len(dims)
                /\ \A d \in 0 .. (Len(dims) - 1) : dim(View, d) = dims[d + 1]
    /\ [][/\ size(View)' = size(View)
          /\ dimensions_(View)' = dimensions_(View)
          /\ \A d \in 0 .. (dimensions_(View) - 1) : dim(View, d)' = dim(View, d)
          /\ memory_end(memory, View)' = <<memory_start(memory'), size(View)>>]_vars

\* a view of dimension 2 over a container of four elements, used
C28_Witness ==
    /\ op = "index_const" /\ ~Failed(sub)
    /\ dimensions = <<2>> /\ size(View) = 4 /\ sub_size(sub) = 4
    /\ memory_end(memory, View) = <<sub_memory_start(sub), 4>>


\* the components of x are numbers, none of them NaN
Numeric(x) == x.real # NaN /\ x.imag # NaN
NonZero(x) == x.real # Whole(0) \/ x.imag # Whole(0)

\* C29: for x and y with integer components (y non-zero for a division),
\* x after x += y, x -= y, x *= y, x /= y is equal to x + y, x - y, x * y,
\* x / y of the operands, also when y is x itself, and the product of
\* a + bi and c + di is (ac - bd) + (bc + ad)i.
C29_CompoundAgreesWithBinary ==
    Numeric(cplx.x) /\ Numeric(cplx.y) =>
        /\ op = "+=" => equals(cplx.out, plus(cplx.x, cplx.y))
        /\ op = "-=" => equals(cplx.out, minus(cplx.x, cplx.y))
        /\ op = "*=" => equals(cplx.out, times(cplx.x, cplx.y))
        /\ op = "/=" /\ NonZero(cplx.y) => equals(cplx.out, divide(cplx.x, cplx.y))
        /\ op = "+" => equals(cplx.out, plus_assign(cplx.x, cplx.y, FALSE))
        /\ op = "-" => equals(cplx.out, minus_assign(cplx.x, cplx.y, FALSE))
        /\ op = "*" => equals(cplx.out, times_assign(cplx.x, cplx.y, FALSE))
        /\ op = "/" /\ NonZero(cplx.y) =>
               equals(cplx.out, divide_assign(cplx.x, cplx.y, FALSE))
        /\ op \in {"*=", "*"} =>
               cplx.out = complex(
                   Whole(cplx.x.real[1] * cplx.y.real[1] - cplx.x.imag[1] * cplx.y.imag[1]),
                   Whole(cplx.x.imag[1] * cplx.y.real[1] + cplx.x.real[1] * cplx.y.imag[1]))

\* x = 1 + 2i after x *= x is -3 + 4i
C29_Witness ==
    /\ op = "*=" /\ cplx.self_rhs
    /\ cplx.x = complex(Whole(1), Whole(2))
    /\ cplx.out = complex(Whole(-3), Whole(4))

\* the four identities, compared with operator==
ConjInverseIdentities ==
    /\ op = "conj_inverse" => equals(cplx.out, conj(inverse(cplx.x)))
    /\ op = "inverse_conj" => equals(cplx.out, inverse(conj(cplx.x)))
    /\ op = "conj" => equals(conj(cplx.out), cplx.x)
    /\ op = "inverse" => equals(inverse(cplx.out), cplx.x)

\* C30 as stated: for every x, conj_inverse(x) == conj(inverse(x)),
\* inverse_conj(x) == inverse(conj(x)), conj(conj(x)) == x and
\* inverse(inverse(x)) == x.
C30_Original == op \in Unary => ConjInverseIdentities

\* C30: for every x neither component of which is NaN,
\* conj_inverse(x) == conj(inverse(x)), inverse_conj(x) == inverse(conj(x)),
\* conj(conj(x)) == x and inverse(inverse(x)) == x; with a NaN component
\* none of the four comparisons is true.
C30_ConjInverseIdentities ==
    op \in Unary =>
        IF Numeric(cplx.x) THEN ConjInverseIdentities
        ELSE /\ op = "conj_inverse" => not_equals(cplx.out, conj(inverse(cplx.x)))
             /\ op = "inverse_conj" => not_equals(cplx.out, inverse(conj(cplx.x)))
             /\ op = "conj" => not_equals(conj(cplx.out), cplx.x)
             /\ op = "inverse" => not_equals(inverse(cplx.out), cplx.x)

\* conj_inverse(1 + 2i) is 2 - i
C30_Witness ==
    /\ op = "conj_inverse"
    /\ cplx.x = complex(Whole(1), Whole(2))
    /\ cplx.out = complex(Whole(2), Whole(-1))

====
